---- MODULE Spec2Model ----
(***************************************************************************)
(* Calibration measures of probnumeval (anees, nci) and the normalized     *)
(* discrepancy they share, modelled from                                   *)
(* src/src/probnumeval/multivariate/_calibration_measures.py.              *)
(*                                                                         *)
(* Numbers are exact rationals <<n, d>> (d > 0, lowest terms): the model   *)
(* follows the values the array operations compute, not their rounding.    *)
(* Arrays are floating-point arrays; vectors are sequences of rationals,   *)
(* matrices are sequences of rows, and the per-point dimension is 1 or 2,  *)
(* for which the linear algebra is written out in closed form.             *)
(***************************************************************************)
EXTENDS Integers, Sequences, FiniteSets, TLC

(***************************************************************************)
(* Bounds of the model.                                                    *)
(***************************************************************************)
MaxN == 2
MaxEntry == 1
MaxDamping == 1
MaxWrites == 1
MaxFactor == 2

\* Per-point dimensions of the approximate solution, and of a reference that
\* need not match it.
Dims == {1, 2}
RefDims == {1, 2, 3}

(***************************************************************************)
(* Exact rational arithmetic.                                              *)
(***************************************************************************)
Abs(x) == IF x < 0 THEN -x ELSE x

RECURSIVE GCD(_, _)
GCD(a, b) == IF b = 0 THEN a ELSE GCD(b, a % b)

Norm(n, d) ==
    LET s == IF d < 0 THEN -1 ELSE 1
        g == GCD(Abs(n), Abs(d))
    IN  <<(s * n) \div g, (s * d) \div g>>

R(n) == <<n, 1>>
Zero == R(0)
One == R(1)
RAdd(a, b) == Norm(a[1] * b[2] + b[1] * a[2], a[2] * b[2])
RSub(a, b) == Norm(a[1] * b[2] - b[1] * a[2], a[2] * b[2])
RMul(a, b) == Norm(a[1] * b[1], a[2] * b[2])
RDiv(a, b) == Norm(a[1] * b[2], a[2] * b[1])
RLt(a, b) == a[1] * b[2] < b[1] * a[2]
RLe(a, b) == a[1] * b[2] <= b[1] * a[2]
RPos(a) == a[1] > 0
RIsZero(a) == a[1] = 0
\* nan, as np.cov returns it for fewer than two observations.
RNaN == <<0, 0>>
IsNaN(a) == a[2] = 0

RECURSIVE RSum(_)
RSum(s) == IF s = <<>> THEN Zero ELSE RAdd(s[1], RSum(Tail(s)))

RECURSIVE RProd(_)
RProd(s) == IF s = <<>> THEN One ELSE RMul(s[1], RProd(Tail(s)))

(***************************************************************************)
(* Vectors and matrices.                                                   *)
(***************************************************************************)
Dot(u, v) == RSum([i \in 1..Len(u) |-> RMul(u[i], v[i])])
MatVec(X, v) == [i \in 1..Len(X) |-> Dot(X[i], v)]
VecMat(v, X) == [j \in 1..Len(X[1]) |-> RSum([i \in 1..Len(v) |-> RMul(v[i], X[i][j])])]
Transpose(X) == [i \in 1..Len(X) |-> [j \in 1..Len(X) |-> X[j][i]]]
Eye(d) == [i \in 1..d |-> [j \in 1..d |-> IF i = j THEN One ELSE Zero]]
MatAdd(X, Y) == [i \in 1..Len(X) |-> [j \in 1..Len(X) |-> RAdd(X[i][j], Y[i][j])]]
MatScale(k, X) == [i \in 1..Len(X) |-> [j \in 1..Len(X) |-> RMul(k, X[i][j])]]

Det(X) ==
    IF Len(X) = 1 THEN X[1][1]
    ELSE RSub(RMul(X[1][1], X[2][2]), RMul(X[1][2], X[2][1]))

HasNaN(X) == \E i \in 1..Len(X) : \E j \in 1..Len(X) : IsNaN(X[i][j])

\* The value of an expression: a number, or the exception that ended it.
Val(x) == [kind |-> "value", v |-> x]
Err(e) == [kind |-> "error", err |-> e]
NaN == [kind |-> "nan"]

\* mean @ X @ mean, for X of the vector's dimension.
Bilinear(mean, X) == Dot(VecMat(mean, X), mean)

\* Inverse without the division by the determinant.
InverseAdjugate(X) ==
    IF Len(X) = 1 THEN <<<<One>>>>
    ELSE << <<X[2][2], RSub(Zero, X[1][2])>>, <<RSub(Zero, X[2][1]), X[1][1]>> >>

\* np.linalg.inv: the explicit inverse (adjugate over determinant).
Inverse(X) ==
    IF Len(X) = 1 THEN <<<<RDiv(One, X[1][1])>>>>
    ELSE LET dt == Det(X)
         IN  << <<RDiv(X[2][2], dt), RDiv(RSub(Zero, X[1][2]), dt)>>,
                <<RDiv(RSub(Zero, X[2][1]), dt), RDiv(X[1][1], dt)>> >>

\* np.linalg.pinv: the Moore-Penrose pseudo-inverse, by rank.
FrobSq(X) == RSum([i \in 1..Len(X) |-> Dot(X[i], X[i])])
PseudoInverse(X) ==
    IF ~RIsZero(Det(X)) THEN Inverse(X)
    ELSE IF RIsZero(FrobSq(X)) THEN X
    ELSE MatScale(RDiv(One, FrobSq(X)), Transpose(X))

\* np.linalg.solve: the solution of X.x = b, by elimination (Cramer's rule).
LinSolve(X, b) ==
    IF Len(X) = 1 THEN <<RDiv(b[1], X[1][1])>>
    ELSE LET dt == Det(X)
         IN  <<RDiv(RSub(RMul(b[1], X[2][2]), RMul(X[1][2], b[2])), dt),
               RDiv(RSub(RMul(X[1][1], b[2]), RMul(b[1], X[2][1])), dt)>>

\* scipy.linalg.cho_factor(lower=True) reads the lower triangle only; the
\* factorization exists iff every pivot is positive.  Pivots of L.D.L^T (the
\* squares of the diagonal of the Cholesky factor).
CholPivots(X) ==
    IF Len(X) = 1 THEN <<X[1][1]>>
    ELSE IF RIsZero(X[1][1]) THEN <<Zero, Zero>>
    ELSE <<X[1][1], RSub(X[2][2], RDiv(RMul(X[2][1], X[2][1]), X[1][1]))>>
CholOk(X) == \A i \in 1..Len(X) : RPos(CholPivots(X)[i])
\* cho_solve, then mean @ x: forward substitution y = L^-1 b, sum y_i^2 / d_i.
CholBilinear(X, b) ==
    LET p == CholPivots(X)
        y == IF Len(X) = 1 THEN <<b[1]>>
             ELSE <<b[1], RSub(b[2], RMul(RDiv(X[2][1], X[1][1]), b[1]))>>
    IN  RSum([i \in 1..Len(X) |-> RDiv(RMul(y[i], y[i]), p[i])])

(***************************************************************************)
(* The covariance-inversion configuration, the caller's data and the call  *)
(* in progress.                                                            *)
(***************************************************************************)
VARIABLES
    cfg,        \* config.COVARIANCE_INVERSION: symmetrize, damping, strategy
    mean,       \* approximate_solution.mean: [shape |-> <<N, d>>, a |-> rows]
    cov,        \* approximate_solution.cov: N matrices, d x d
    reference,  \* reference_solution: [shape |-> <<Nr, dr>>, a |-> rows]
    out,        \* the last call: what it was given and what it returned
    calls,      \* calls made so far
    pc,         \* where the call in progress stands ("idle": none)
    loc,        \* the locals of the call in progress
    writes      \* configuration fields assigned by another execution context

vars == <<cfg, mean, cov, reference, out, calls, pc, loc, writes>>

Strategies == {"inv", "pinv", "solve", "cholesky"}
StrategyNames == Strategies \cup {"bogus"}
Configs == [symmetrize : BOOLEAN, damping : 0..MaxDamping, strategy : StrategyNames]

(***************************************************************************)
(* _compute_normalized_discrepancy, lines 136-153.                         *)
(***************************************************************************)
\* line 139: cov = 0.5 * (cov + cov.T), a new array.
Symmetrized(C) == IF HasNaN(C) THEN C ELSE MatScale(<<1, 2>>, MatAdd(C, Transpose(C)))

\* line 141: cov += damping * np.eye(len(cov)), in place.
Damped(C, damping) ==
    IF HasNaN(C) THEN C ELSE MatAdd(C, MatScale(R(damping), Eye(Len(C))))

\* lines 143-153: the strategy's branch on the regularized matrix X.
\* StrategyInv with the inversion left out.
StrategyInvUninverted(m, X) ==
    IF HasNaN(X) THEN Val(RNaN)
    ELSE IF RIsZero(Det(X)) THEN Err("linalg")
    ELSE IF Len(m) # Len(X) THEN Err("shape")
    ELSE Val(Bilinear(m, X))

\* On a matrix of nan, inv and solve return nan, pinv's SVD does not converge
\* and cho_factor refuses non-finite input.
StrategyInv(m, X) ==
    IF HasNaN(X) THEN Val(RNaN)
    ELSE IF RIsZero(Det(X)) THEN Err("linalg")
    ELSE IF Len(m) # Len(X) THEN Err("shape")
    ELSE Val(Bilinear(m, Inverse(X)))

StrategyPinv(m, X) ==
    IF HasNaN(X) THEN Err("linalg")
    ELSE IF Len(m) # Len(X) THEN Err("shape")
    ELSE Val(Bilinear(m, PseudoInverse(X)))

StrategySolve(m, X) ==
    IF Len(m) # Len(X) THEN Err("shape")
    ELSE IF HasNaN(X) THEN Val(RNaN)
    ELSE IF RIsZero(Det(X)) THEN Err("linalg")
    ELSE Val(Dot(m, LinSolve(X, m)))

StrategyCholesky(m, X) ==
    IF HasNaN(X) THEN Err("nonfinite")
    ELSE IF ~CholOk(X) THEN Err("linalg")
    ELSE IF Len(m) # Len(X) THEN Err("shape")
    ELSE Val(CholBilinear(X, m))

\* Dispatch with inv as the fallback of an unknown name.
DispatchDefaultsToInv(m, X, strategy) ==
    IF strategy = "pinv" THEN StrategyPinv(m, X)
    ELSE IF strategy = "solve" THEN StrategySolve(m, X)
    ELSE IF strategy = "cholesky" THEN StrategyCholesky(m, X)
    ELSE StrategyInv(m, X)

Dispatch(m, X, strategy) ==
    IF strategy = "inv" THEN StrategyInv(m, X)
    ELSE IF strategy = "pinv" THEN StrategyPinv(m, X)
    ELSE IF strategy = "solve" THEN StrategySolve(m, X)
    ELSE IF strategy = "cholesky" THEN StrategyCholesky(m, X)
    ELSE Err("config")

\* Regularized without the damping of lines 140-141.
RegularizedUndamped(C, c) == IF c.symmetrize THEN Symmetrized(C) ELSE C

\* The matrix the strategies work on.
Regularized(C, c) ==
    LET S == IF c.symmetrize THEN Symmetrized(C) ELSE C
    IN  IF c.damping > 0 THEN Damped(S, c.damping) ELSE S

\* What the call leaves in the array slot C was taken from: line 139 rebinds
\* cov to a new array, otherwise line 141 adds to the slot itself.
SlotAfter(C, c) ==
    IF ~c.symmetrize /\ c.damping > 0 THEN Damped(C, c.damping) ELSE C

\* One call under one configuration: the value or error, and the slot.
Discrepancy(m, C, c) ==
    [out |-> Dispatch(m, Regularized(C, c), c.strategy), slot |-> SlotAfter(C, c)]

(***************************************************************************)
(* _compute_normalized_discrepancies, lines 127-133: the pairs of the zip, *)
(* in order, until one raises.                                             *)
(***************************************************************************)
Min(a, b) == IF a < b THEN a ELSE b

RECURSIVE PassFrom(_, _, _, _, _)
\* The i-th pair gave r: its error ends the pass, its value joins the list.
PassAfter(ms, Cs, c, i, acc, r) ==
    IF r.out.kind = "error"
    THEN [discs |-> acc, err |-> r.out.err, covs |-> [Cs EXCEPT ![i] = r.slot]]
    ELSE PassFrom(ms, [Cs EXCEPT ![i] = r.slot], c, i + 1, Append(acc, r.out.v))

PassFrom(ms, Cs, c, i, acc) ==
    IF i > Min(Len(ms), Len(Cs)) THEN [discs |-> acc, err |-> "none", covs |-> Cs]
    ELSE PassAfter(ms, Cs, c, i, acc, Discrepancy(ms[i], Cs[i], c))

Discrepancies(ms, Cs, c) == PassFrom(ms, Cs, c, 1, <<>>)

(***************************************************************************)
(* Array operations of the two statistics.                                 *)
(***************************************************************************)
\* Broadcastable with only the lengths compared.
BroadcastableLengthOnly(s, t) == s[1] = t[1] \/ s[1] = 1 \/ t[1] = 1

\* Broadcasting of two 2-d shapes.
Broadcastable(s, t) == \A k \in 1..2 : s[k] = t[k] \/ s[k] = 1 \/ t[k] = 1
BroadcastShape(s, t) == [k \in 1..2 |-> IF s[k] = 1 THEN t[k] ELSE s[k]]
At(arr, i, j) ==
    arr.a[IF arr.shape[1] = 1 THEN 1 ELSE i][IF arr.shape[2] = 1 THEN 1 ELSE j]

\* lines 63, 101: approximate_solution.mean - reference_solution (rows).
CenteredMean(mn, ref) ==
    LET sh == BroadcastShape(mn.shape, ref.shape)
    IN  [i \in 1..sh[1] |-> [j \in 1..sh[2] |-> RSub(At(mn, i, j), At(ref, i, j))]]

\* MeanOf without the division by the count.
MeanOfSum(discs) ==
    IF discs = <<>> \/ \E i \in 1..Len(discs) : IsNaN(discs[i]) THEN NaN
    ELSE Val(RSum(discs))

\* line 67: np.mean of the discrepancies (nan for none).
MeanOf(discs) ==
    IF discs = <<>> \/ \E i \in 1..Len(discs) : IsNaN(discs[i]) THEN NaN
    ELSE Val(RDiv(RSum(discs), R(Len(discs))))

\* line 67 on the outcome p of the pass.
AneesResult(p) ==
    [res |-> IF p.err # "none" THEN Err(p.err) ELSE MeanOf(p.discs),
     A |-> p.discs, covs |-> p.covs]

AneesCall(mn, Cs, ref, c) ==
    IF ~Broadcastable(mn.shape, ref.shape)
    THEN [res |-> Err("shape"), A |-> <<>>, covs |-> Cs]
    ELSE AneesResult(Discrepancies(CenteredMean(mn, ref), Cs, c))

\* line 107: np.cov(centered_mean.T), rows are observations; nan with fewer
\* than two observations (zero degrees of freedom).
ColMean(cm, j) == RDiv(RSum([n \in 1..Len(cm) |-> cm[n][j]]), R(Len(cm)))
SampleCovBiased(cm) ==
    IF Len(cm) = 0 THEN <<>>
    ELSE [j \in 1..Len(cm[1]) |-> [k \in 1..Len(cm[1]) |->
        RDiv(RSum([n \in 1..Len(cm) |->
                RMul(RSub(cm[n][j], ColMean(cm, j)), RSub(cm[n][k], ColMean(cm, k)))]),
             R(Len(cm)))]]
SampleCov(cm) ==
    IF Len(cm) = 0 THEN <<>>
    ELSE [j \in 1..Len(cm[1]) |-> [k \in 1..Len(cm[1]) |->
        IF Len(cm) = 1 THEN RNaN
        ELSE RDiv(RSum([n \in 1..Len(cm) |->
                    RMul(RSub(cm[n][j], ColMean(cm, j)), RSub(cm[n][k], ColMean(cm, k)))]),
                  R(Len(cm) - 1))]]

\* lines 106-108: np.tile(..., reps=(len(centered_mean), 1, 1)).
Tile(X, n) == [i \in 1..n |-> X]

\* np.mean(np.log10(discs)), kept as the logarithm of the product over the
\* count: log10 of a negative number is nan, of zero -inf.
LogMean(discs) ==
    IF discs = <<>> \/ \E i \in 1..Len(discs) : IsNaN(discs[i]) \/ ~RLe(Zero, discs[i])
    THEN [kind |-> "nan"]
    ELSE IF \E i \in 1..Len(discs) : RIsZero(discs[i]) THEN [kind |-> "neginf"]
    ELSE [kind |-> "finite", p |-> RProd(discs), n |-> Len(discs)]

\* lines 112-115: 10 * (la - lb).  A value stands for
\* 10 * (log10(pa) / na - log10(pb) / nb).
NciCombine(la, lb) ==
    IF la.kind = "nan" \/ lb.kind = "nan" THEN NaN
    ELSE IF la.kind = "neginf" THEN (IF lb.kind = "neginf" THEN NaN ELSE [kind |-> "neginf"])
    ELSE IF lb.kind = "neginf" THEN [kind |-> "posinf"]
    ELSE Val([pa |-> la.p, na |-> la.n, pb |-> lb.p, nb |-> lb.n])

\* lines 112-116 on the outcomes pa, pb of the two passes.
NciResult(pa, pb) ==
    [res |-> IF pb.err # "none" THEN Err(pb.err)
             ELSE NciCombine(LogMean(pa.discs), LogMean(pb.discs)),
     A |-> pa.discs, B |-> pb.discs, covs |-> pa.covs]

\* lines 106-116 after the first pass gave pa.
NciSecondPass(cm, c, pa) ==
    IF pa.err # "none"
    THEN [res |-> Err(pa.err), A |-> pa.discs, B |-> <<>>, covs |-> pa.covs]
    ELSE NciResult(pa, Discrepancies(cm, Tile(SampleCov(cm), Len(cm)), c))

\* lines 102-116 on the residuals cm.
NciOf(cm, Cs, c) == NciSecondPass(cm, c, Discrepancies(cm, Cs, c))

NciCall(mn, Cs, ref, c) ==
    IF ~Broadcastable(mn.shape, ref.shape)
    THEN [res |-> Err("shape"), A |-> <<>>, B |-> <<>>, covs |-> Cs]
    ELSE NciOf(CenteredMean(mn, ref), Cs, c)

(***************************************************************************)
(* The caller's data: bounded families of inputs.                          *)
(***************************************************************************)
Seqs(S, n) == [1..n -> S]
Grid(lo, hi) == {R(v) : v \in lo..hi}
Rows(d, S) == [1..d -> S]
Matrices(d, S) == [1..d -> [1..d -> S]]

\* Mean rows, the reference row and covariances (positive definite,
\* singular, asymmetric) of the sequential specifications.
MeanRows(d) ==
    IF d = 1 THEN {<<R(0)>>, <<R(1)>>, <<R(2)>>} ELSE {<<R(2), R(0)>>, <<R(1), R(1)>>}
RefRow(d) == IF d = 1 THEN <<R(1)>> ELSE <<R(1), R(0)>>
Covs(d) ==
    IF d = 1 THEN {<< <<R(0)>> >>, << <<R(1)>> >>, << <<R(2)>> >>}
    ELSE { << <<R(1), R(0)>>, <<R(0), R(1)>> >>,
           << <<R(2), R(1)>>, <<R(1), R(1)>> >>,
           << <<R(1), R(1)>>, <<R(1), R(1)>> >>,
           << <<R(1), R(1)>>, <<R(0), R(1)>> >> }
Array(n, d, rows) == [shape |-> <<n, d>>, a |-> rows]

Idle == pc = "idle" /\ loc = <<>> /\ writes = 0
Fresh == out = [fn |-> "none"] /\ calls = 0

\* A well-formed approximate solution and a reference of the same shape.
AlignedInputs ==
    \E d \in Dims, n \in 0..MaxN :
        /\ mean \in {Array(n, d, rows) : rows \in Seqs(MeanRows(d), n)}
        /\ cov \in Seqs(Covs(d), n)
        /\ reference = Array(n, d, [i \in 1..n |-> RefRow(d)])

\* The scalar scenario: d = 1, N = 3.
ScenarioInputs ==
    /\ mean = Array(3, 1, << <<R(1)>>, <<R(2)>>, <<R(3)>> >>)
    /\ cov = << << <<R(1)>> >>, << <<R(1)>> >>, << <<R(4)>> >> >>
    /\ reference = Array(3, 1, << <<R(0)>>, <<R(2)>>, <<R(5)>> >>)

Init ==
    /\ cfg \in Configs
    /\ AlignedInputs \/ ScenarioInputs
    /\ Fresh
    /\ Idle

\* A well-formed approximate solution and a reference of any 2-d shape.
ShapeInit ==
    /\ cfg \in Configs
    /\ \E d \in Dims, n \in 0..MaxN :
        /\ mean = Array(n, d, [i \in 1..n |-> [j \in 1..d |-> R(2)]])
        /\ cov \in Seqs({MatScale(R(k), Eye(d)) : k \in 0..1}, n)
    /\ \E dr \in RefDims, nr \in 0..MaxN :
        reference = Array(nr, dr, [i \in 1..nr |-> [j \in 1..dr |-> R(1)]])
    /\ Fresh
    /\ Idle

\* One residual and one covariance matrix, entries on a grid.
DiscInit ==
    /\ cfg \in Configs
    /\ \E d \in Dims :
        /\ mean \in {Array(1, d, <<row>>) : row \in Rows(d, Grid(0, MaxEntry))}
        /\ cov \in Seqs(Matrices(d, Grid(-MaxEntry, MaxEntry + 1)), 1)
        /\ reference = Array(1, d, << [j \in 1..d |-> Zero] >>)
    /\ Fresh
    /\ Idle

\* Covariances to rescale: positive definite or not.
ScaleCovs(d) ==
    IF d = 1 THEN {<< <<R(0)>> >>, << <<R(2)>> >>}
    ELSE { << <<R(2), R(1)>>, <<R(1), R(1)>> >>,
           << <<R(1), R(1)>>, <<R(0), R(1)>> >> }

\* A well-formed, non-empty approximate solution and a reference of the
\* same shape.
ScaleInit ==
    /\ cfg \in Configs
    /\ \E d \in Dims, n \in 1..MaxN :
        /\ mean \in {Array(n, d, rows) : rows \in Seqs(MeanRows(d), n)}
        /\ cov \in Seqs(ScaleCovs(d), n)
        /\ reference = Array(n, d, [i \in 1..n |-> RefRow(d)])
    /\ Fresh
    /\ Idle

\* anees(approximate_solution, reference_solution), lines 62-67.
CallAnees ==
    /\ pc = "idle"
    /\ calls = 0
    /\ \E r \in {AneesCall(mean, cov, reference, cfg)} :
           /\ cov' = r.covs
           /\ out' = [fn |-> "anees", res |-> r.res, A |-> r.A, B |-> <<>>,
                      cfg |-> cfg, cov |-> cov]
    /\ calls' = 1
    /\ UNCHANGED <<cfg, mean, reference, pc, loc, writes>>

\* nci(approximate_solution, reference_solution), lines 100-116.
CallNci ==
    /\ pc = "idle"
    /\ calls = 0
    /\ \E r \in {NciCall(mean, cov, reference, cfg)} :
           /\ cov' = r.covs
           /\ out' = [fn |-> "nci", res |-> r.res, A |-> r.A, B |-> r.B,
                      cfg |-> cfg, cov |-> cov]
    /\ calls' = 1
    /\ UNCHANGED <<cfg, mean, reference, pc, loc, writes>>

\* _compute_normalized_discrepancy(mean, cov) on its own, lines 136-153.
CallDiscrepancy ==
    /\ pc = "idle"
    /\ calls = 0
    /\ \E r \in {Discrepancy(mean.a[1], cov[1], cfg)} :
           /\ cov' = <<r.slot>>
           /\ out' = [fn |-> "discrepancy", res |-> r.out, A |-> <<>>, B |-> <<>>,
                      cfg |-> cfg, cov |-> cov]
    /\ calls' = 1
    /\ UNCHANGED <<cfg, mean, reference, pc, loc, writes>>

\* The statistics of one solution and of the same solution with every
\* covariance multiplied by k.
Factors == {R(k) : k \in 2..MaxFactor} \cup {<<1, k>> : k \in 2..MaxFactor}
Scaled(Cs, k) == [i \in 1..Len(Cs) |-> MatScale(k, Cs[i])]
Rescale ==
    /\ pc = "idle"
    /\ calls = 0
    /\ \E k \in Factors :
        out' = [fn |-> "rescale", k |-> k, cfg |-> cfg, cov |-> cov,
                anees |-> AneesCall(mean, cov, reference, cfg).res,
                aneesScaled |-> AneesCall(mean, Scaled(cov, k), reference, cfg).res,
                nci |-> NciCall(mean, cov, reference, cfg).res,
                nciScaled |-> NciCall(mean, Scaled(cov, k), reference, cfg).res]
    /\ calls' = 1
    /\ UNCHANGED <<cfg, mean, cov, reference, pc, loc, writes>>

(***************************************************************************)
(* One call, statement by statement, while another execution context       *)
(* assigns configuration fields.  Every read of config.COVARIANCE_INVERSION*)
(* is a step of its own and sees the value of that moment.                 *)
(***************************************************************************)
\* The configuration as it was when the call began.
ReadSnapshot == IF pc = "idle" THEN cfg ELSE loc.cfg0

\* config.COVARIANCE_INVERSION[...], as read on lines 138-149.
ReadConfig == cfg

\* Two scalar points, each covariance singular or not.
ConcInit ==
    /\ cfg \in Configs
    /\ mean = Array(2, 1, << <<R(2)>>, <<R(0)>> >>)
    /\ cov \in Seqs({<< <<R(0)>> >>, << <<R(1)>> >>}, 2)
    /\ reference = Array(2, 1, << <<R(1)>>, <<R(1)>> >>)
    /\ Fresh
    /\ Idle

\* The call returns or raises: res is its outcome.
Finish(l, res) ==
    /\ pc' = "idle"
    /\ loc' = <<>>
    /\ out' = [fn |-> l.fn, res |-> res, A |-> l.accA, B |-> l.accB,
               cfg |-> l.cfg0, cov |-> l.cov0, cfgEnd |-> cfg,
               dirty |-> l.dirty, recognized |-> l.recognized]

\* The zip of lines 129-132 yields its next pair, or the pass is over:
\* anees returns (line 67), nci goes on to the second pass (lines 106-111)
\* or returns (lines 112-116).
EnterPoint(l, C) ==
    /\ pc' = "l138"
    /\ loc' = [l EXCEPT !.lcov = C, !.aliased = TRUE, !.k = l.k + 1]
    /\ UNCHANGED out

Continue(l) ==
    IF l.phase = "A"
    THEN IF l.i <= Min(Len(l.cm), Len(cov)) THEN EnterPoint(l, cov[l.i])
         ELSE IF l.fn = "anees" THEN Finish(l, MeanOf(l.accA))
         ELSE IF Len(l.cm) = 0 THEN Finish(l, NciCombine(LogMean(l.accA), LogMean(<<>>)))
         ELSE LET T == Tile(SampleCov(l.cm), Len(l.cm))
              IN  EnterPoint([l EXCEPT !.phase = "B", !.i = 1, !.tile = T], T[1])
    ELSE IF l.i <= Len(l.cm) THEN EnterPoint(l, l.tile[l.i])
         ELSE Finish(l, NciCombine(LogMean(l.accA), LogMean(l.accB)))

\* lines 62-63 and 100-101.
Begin(fn) ==
    /\ pc = "idle"
    /\ calls = 0
    /\ calls' = 1
    /\ IF ~Broadcastable(mean.shape, reference.shape)
       THEN /\ pc' = "idle"
            /\ loc' = <<>>
            /\ out' = [fn |-> fn, res |-> Err("shape"), A |-> <<>>, B |-> <<>>,
                       cfg |-> cfg, cov |-> cov, cfgEnd |-> cfg, dirty |-> 0,
                       recognized |-> cfg.strategy \in Strategies]
       ELSE Continue([fn |-> fn, phase |-> "A", i |-> 1,
                      cm |-> CenteredMean(mean, reference), tile |-> <<>>,
                      lcov |-> <<>>, aliased |-> TRUE, accA |-> <<>>, accB |-> <<>>,
                      cfg0 |-> cfg, cov0 |-> cov, k |-> 0, dirty |-> 0,
                      recognized |-> cfg.strategy \in Strategies])
    /\ UNCHANGED <<cfg, mean, cov, reference, writes>>

BeginAnees == Begin("anees")
BeginNci == Begin("nci")

\* line 138-139.
Line138 ==
    /\ pc = "l138"
    /\ pc' = "l140"
    /\ loc' = IF ReadConfig.symmetrize
              THEN [loc EXCEPT !.lcov = Symmetrized(@), !.aliased = FALSE]
              ELSE loc
    /\ UNCHANGED <<cfg, mean, cov, reference, out, calls, writes>>

\* line 140.
Line140 ==
    /\ pc = "l140"
    /\ pc' = IF ReadConfig.damping > 0 THEN "l141" ELSE "l143"
    /\ UNCHANGED <<cfg, mean, cov, reference, out, calls, loc, writes>>

\* line 141: the addition is in place, so it reaches the array the matrix
\* is a view of unless line 139 rebound cov.
Line141 ==
    /\ pc = "l141"
    /\ pc' = "l143"
    /\ LET X == Damped(loc.lcov, ReadConfig.damping)
       IN  /\ loc' = IF loc.aliased /\ loc.phase = "B"
                     THEN [loc EXCEPT !.lcov = X, !.tile[loc.i] = X]
                     ELSE [loc EXCEPT !.lcov = X]
           /\ cov' = IF loc.aliased /\ loc.phase = "A"
                     THEN [cov EXCEPT ![loc.i] = X]
                     ELSE cov
    /\ UNCHANGED <<cfg, mean, reference, out, calls, writes>>

\* A strategy's branch was taken: its value joins the list, its error ends
\* the call.
Return(r) ==
    IF r.kind = "error" THEN Finish(loc, r)
    ELSE IF loc.phase = "A"
    THEN Continue([loc EXCEPT !.accA = Append(@, r.v), !.i = @ + 1])
    ELSE Continue([loc EXCEPT !.accB = Append(@, r.v), !.i = @ + 1])

\* One of the tests of lines 143, 145, 147, 149.
Test(here, name, r, next) ==
    /\ pc = here
    /\ IF ReadConfig.strategy = name THEN Return(r)
       ELSE IF next = "raise" THEN Finish(loc, Err("config"))
       ELSE pc' = next /\ UNCHANGED <<loc, out>>
    /\ UNCHANGED <<cfg, mean, cov, reference, calls, writes>>

Line143 == Test("l143", "inv", StrategyInv(loc.cm[loc.i], loc.lcov), "l145")
Line145 == Test("l145", "pinv", StrategyPinv(loc.cm[loc.i], loc.lcov), "l147")
Line147 == Test("l147", "solve", StrategySolve(loc.cm[loc.i], loc.lcov), "l149")
Line149 == Test("l149", "cholesky", StrategyCholesky(loc.cm[loc.i], loc.lcov), "raise")

\* Another execution context assigns a field of the configuration.
Write(c) ==
    /\ writes < MaxWrites
    /\ writes' = writes + 1
    /\ c # cfg
    /\ cfg' = c
    /\ loc' = IF pc = "idle" THEN loc
              ELSE [loc EXCEPT !.dirty = loc.k,
                               !.recognized = @ /\ c.strategy \in Strategies]
    /\ UNCHANGED <<mean, cov, reference, out, calls, pc>>

WriteSymmetrize == \E b \in BOOLEAN : Write([cfg EXCEPT !.symmetrize = b])
WriteDamping == \E x \in 0..MaxDamping : Write([cfg EXCEPT !.damping = x])
WriteStrategy == \E n \in StrategyNames : Write([cfg EXCEPT !.strategy = n])

NextConc ==
    \/ BeginAnees \/ BeginNci
    \/ Line138 \/ Line140 \/ Line141
    \/ Line143 \/ Line145 \/ Line147 \/ Line149
    \/ WriteSymmetrize \/ WriteDamping \/ WriteStrategy

Next == CallAnees \/ CallNci
Spec == Init /\ [][Next]_vars
SpecShape == ShapeInit /\ [][Next]_vars
SpecDisc == DiscInit /\ [][CallDiscrepancy]_vars
SpecScale == ScaleInit /\ [][Rescale]_vars
SpecConc == ConcInit /\ [][NextConc]_vars

(***************************************************************************)
(* Properties.                                                             *)
(***************************************************************************)
Returned == pc = "idle" /\ out.fn \in {"anees", "nci"}
NPoints == mean.shape[1]
\* mean_n - reference_n of a reference of the mean's shape.
Residual(n) == [j \in 1..mean.shape[2] |-> RSub(mean.a[n][j], reference.a[n][j])]
\* Along some axis the lengths of mean and reference differ and neither is 1.
ShapesClash ==
    \E k \in 1..2 :
        /\ mean.shape[k] # reference.shape[k]
        /\ mean.shape[k] # 1
        /\ reference.shape[k] # 1
\* (residual, covariance) pairs are formed: the shapes broadcast and neither
\* side is empty.
FormsPairs ==
    /\ ~ShapesClash
    /\ NPoints >= 1
    /\ reference.shape[1] >= 1

\* C1, as stated: with an unrecognized strategy every call of anees and of
\* nci, whatever the inputs, fails with the invalid-configuration error.
C1_AnyInputRaises ==
    (Returned /\ out.cfg.strategy \notin Strategies) => out.res = Err("config")

\* C1, amended: with an unrecognized strategy every call of anees and of nci
\* that forms at least one (residual, covariance) pair fails with the
\* invalid-configuration error; an empty batch returns nan and shapes that
\* do not broadcast fail with the shape error first.
C1_InvalidStrategyRaises ==
    (Returned /\ out.cfg.strategy \notin Strategies) =>
        /\ FormsPairs => out.res = Err("config")
        /\ ShapesClash => out.res = Err("shape")
        /\ (~ShapesClash /\ ~FormsPairs) => out.res = NaN

C1_Witness ==
    /\ Returned /\ out.fn = "nci" /\ out.cfg.strategy = "bogus"
    /\ NPoints = 2 /\ reference.shape = mean.shape
    /\ out.res = Err("config")

\* C2: after a call of anees or nci the covariance matrices held by the
\* caller's approximate solution are what they were before the call.
C2_CovarianceUntouched == Returned => cov = out.cov

\* C3: anees returns the arithmetic mean over all N points of the normalized
\* discrepancy of (mean_n - reference_n, covariance_n), not divided by d; in
\* the scalar scenario (strategy solve, no damping) the discrepancies are
\* 1, 0, 1 and anees is 2/3.
C3_AneesIsMean ==
    (Returned /\ out.fn = "anees" /\ out.res.kind = "value") =>
        /\ Len(out.A) = NPoints
        /\ \A n \in 1..NPoints :
            /\ out.A[n] = Discrepancy(Residual(n), out.cov[n], out.cfg).out.v
            /\ (mean.shape[2] = 1 /\ out.cfg.damping = 0 /\ ~RIsZero(out.cov[n][1][1])) =>
                RMul(out.A[n], out.cov[n][1][1]) = RMul(Residual(n)[1], Residual(n)[1])
        /\ RMul(out.res.v, R(NPoints)) = RSum(out.A)
        /\ (ScenarioInputs /\ out.cfg.strategy = "solve" /\ out.cfg.damping = 0) =>
            /\ out.A = <<R(1), R(0), R(1)>>
            /\ out.res.v = <<2, 3>>

C3_Witness ==
    /\ Returned /\ out.fn = "anees" /\ ScenarioInputs
    /\ out.cfg.strategy = "solve" /\ out.cfg.damping = 0
    /\ out.res = Val(<<2, 3>>)

\* The sample covariance of the residual batch, by the sums of products.
SampleCovariance(j, k) ==
    LET sj == RSum([n \in 1..NPoints |-> Residual(n)[j]])
        sk == RSum([n \in 1..NPoints |-> Residual(n)[k]])
        sjk == RSum([n \in 1..NPoints |-> RMul(Residual(n)[j], Residual(n)[k])])
    IN  RDiv(RSub(RMul(R(NPoints), sjk), RMul(sj, sk)), R(NPoints * (NPoints - 1)))
SampleCovarianceMatrix ==
    [j \in 1..mean.shape[2] |-> [k \in 1..mean.shape[2] |-> SampleCovariance(j, k)]]

\* C4: nci returns 10 * (mean(log10(A)) - mean(log10(B))): A the
\* discrepancies of the N residuals under their own covariances, B those of
\* the same residuals under the one sample covariance matrix of the batch,
\* both under the same configuration.
C4_NciFormula ==
    (Returned /\ out.fn = "nci" /\ out.res.kind = "value") =>
        /\ Len(out.A) = NPoints /\ Len(out.B) = NPoints /\ NPoints >= 2
        /\ \A n \in 1..NPoints :
            /\ out.A[n] = Discrepancy(Residual(n), out.cov[n], out.cfg).out.v
            /\ out.B[n] = Discrepancy(Residual(n), SampleCovarianceMatrix, out.cfg).out.v
            /\ RPos(out.A[n]) /\ RPos(out.B[n])
        /\ out.res.v = [pa |-> RProd(out.A), na |-> NPoints,
                        pb |-> RProd(out.B), nb |-> NPoints]
        /\ (/\ mean.a = << <<R(2)>>, <<R(0)>> >>
            /\ out.cov = << << <<R(1)>> >>, << <<R(1)>> >> >>
            /\ out.cfg.damping = 0) =>
            out.res.v = [pa |-> R(1), na |-> 2, pb |-> <<1, 4>>, nb |-> 2]

C4_Witness ==
    /\ Returned /\ out.fn = "nci"
    /\ mean.shape = <<2, 2>> /\ out.cfg.damping = 1 /\ out.cfg.strategy = "cholesky"
    /\ out.res.kind = "value"
    /\ out.res.v.pa # out.res.v.pb

\* sigma^2 * I for sigma^2 > 0.
IsScaledIdentity(C) ==
    /\ RPos(C[1][1])
    /\ \A i \in 1..Len(C) : \A j \in 1..Len(C) :
        C[i][j] = IF i = j THEN C[1][1] ELSE Zero

\* C5: for C = sigma^2 * I, sigma^2 > 0, and damping off, each of the four
\* strategies yields ||r||^2 / sigma^2.
C5_ScaledIdentity ==
    (/\ out.fn = "discrepancy"
     /\ out.cfg.strategy \in Strategies
     /\ out.cfg.damping = 0
     /\ IsScaledIdentity(out.cov[1])) =>
        out.res = Val(RDiv(Dot(mean.a[1], mean.a[1]), out.cov[1][1][1]))

C5_Witness ==
    /\ out.fn = "discrepancy" /\ out.cfg.strategy = "cholesky" /\ out.cfg.damping = 0
    /\ out.cov = << << <<R(2), R(0)>>, <<R(0), R(2)>> >> >>
    /\ mean.a[1] = <<R(1), R(1)>>
    /\ out.res = Val(R(1))

IsSingular(C) == RIsZero(Det(C))
IsSymmetricPSD(C) ==
    /\ C = Transpose(C)
    /\ \A i \in 1..Len(C) : RLe(Zero, C[i][i])
    /\ RLe(Zero, Det(C))
IsSymmetricPD(C) == IsSymmetricPSD(C) /\ RPos(Det(C))
Failing == {"inv", "solve", "cholesky"}

IsValue(r) == r.kind = "value"
\* x < y for two values of nci with the same counts and the same baseline.
NciLess(x, y) ==
    /\ x.na = y.na /\ x.nb = y.nb /\ x.pb = y.pb
    /\ RLt(x.pa, y.pa)
Inflates == RLt(One, out.k)

\* C7, as stated: multiplying every covariance by k > 1 decreases anees and
\* nci, by 0 < k < 1 increases both (wherever the statistics have a value).
C7_AlwaysStrict ==
    out.fn = "rescale" =>
        /\ (IsValue(out.anees) /\ IsValue(out.aneesScaled)) =>
            IF Inflates THEN RLt(out.aneesScaled.v, out.anees.v)
            ELSE RLt(out.anees.v, out.aneesScaled.v)
        /\ (IsValue(out.nci) /\ IsValue(out.nciScaled)) =>
            IF Inflates THEN NciLess(out.nciScaled.v, out.nci.v)
            ELSE NciLess(out.nci.v, out.nciScaled.v)

\* C7, amended: with every covariance symmetric positive definite,
\* multiplying every covariance by k > 1 decreases anees unless every
\* residual is zero (anees is then 0 before and after) and decreases nci
\* whenever nci is finite; 0 < k < 1 increases them likewise.
C7_ScalingMonotone ==
    (/\ out.fn = "rescale"
     /\ out.cfg.strategy \in Strategies
     /\ NPoints >= 1
     /\ \A n \in 1..NPoints : IsSymmetricPD(out.cov[n])) =>
        /\ IsValue(out.anees) /\ IsValue(out.aneesScaled)
        /\ IF \A n \in 1..NPoints : Residual(n) = [j \in 1..mean.shape[2] |-> Zero]
           THEN out.anees.v = Zero /\ out.aneesScaled.v = Zero
           ELSE IF Inflates THEN RLt(out.aneesScaled.v, out.anees.v)
           ELSE RLt(out.anees.v, out.aneesScaled.v)
        /\ IsValue(out.nci) <=> IsValue(out.nciScaled)
        /\ IsValue(out.nci) =>
            IF Inflates THEN NciLess(out.nciScaled.v, out.nci.v)
            ELSE NciLess(out.nci.v, out.nciScaled.v)

C7_Witness ==
    /\ out.fn = "rescale" /\ out.k = R(2) /\ out.cfg.damping = 1
    /\ mean.shape = <<2, 2>>
    /\ \A n \in 1..NPoints : IsSymmetricPD(out.cov[n])
    /\ IsValue(out.nci) /\ IsValue(out.nciScaled)
    /\ NciLess(out.nciScaled.v, out.nci.v)
    /\ RLt(out.aneesScaled.v, out.anees.v)

\* C8: the configuration is read when each discrepancy is computed, never
\* snapshotted: every discrepancy computed after the last assignment uses
\* the assigned settings, also within a call that began under other ones.
C8_ReadsAreLive ==
    Returned =>
        LET cm == CenteredMean(mean, reference)
            S == SampleCov(cm)
            nA == Len(out.A)
            nB == Len(out.B)
            inA == nA < Min(Len(cm), Len(out.cov))
        IN  /\ \A j \in 1..nA : j > out.dirty =>
                Discrepancy(cm[j], out.cov[j], out.cfgEnd).out = Val(out.A[j])
            /\ \A j \in 1..nB : nA + j > out.dirty =>
                Discrepancy(cm[j], S, out.cfgEnd).out = Val(out.B[j])
            /\ (out.res.kind = "error" /\ nA + nB + 1 > out.dirty) =>
                out.res = IF inA THEN Discrepancy(cm[nA + 1], out.cov[nA + 1], out.cfgEnd).out
                          ELSE Discrepancy(cm[nB + 1], S, out.cfgEnd).out

\* One anees call whose first point saw no damping and whose second saw it.
C8_Witness ==
    /\ Returned /\ out.fn = "anees"
    /\ out.cov = << << <<R(1)>> >>, << <<R(1)>> >> >>
    /\ out.cfg.damping = 0 /\ out.cfgEnd.damping = 1
    /\ out.A = <<R(1), <<1, 2>>>>
    /\ out.res = Val(<<3, 4>>)

\* C9, as stated: whenever the reference's shape differs from the mean's
\* shape (N, d), anees and nci fail with the shape-mismatch error.
C9_AnyMismatchRaises ==
    (Returned /\ reference.shape # mean.shape) => out.res = Err("shape")

\* C9, amended: whenever the reference's shape does not broadcast against
\* the mean's shape (N, d) (along some axis the lengths differ and neither
\* is 1), anees and nci fail with the shape-mismatch error before any
\* discrepancy is computed.
C9_UnbroadcastableRaises ==
    (Returned /\ ShapesClash) =>
        /\ out.res = Err("shape")
        /\ out.A = <<>>
        /\ cov = out.cov

C9_Witness ==
    /\ Returned /\ out.fn = "anees"
    /\ mean.shape = <<2, 2>> /\ reference.shape = <<2, 3>>
    /\ out.cfg.strategy = "inv"
    /\ out.res = Err("shape")

\* C10: while the strategy holds a recognized value at every moment, no
\* call raises the invalid-configuration error.
C10_NoSpuriousConfigError ==
    (Returned /\ out.recognized) => out.res # Err("config")
====
